---- MODULE Spec2Model ----
(***************************************************************************)
(* Model of app.py: the catalog loader (load_paint_catalogs) and the       *)
(* search block of the paint products page.                                *)
(*                                                                         *)
(* Text is a sequence of one-character strings, so that strip(), lower(),  *)
(* split(), float() and the price format are computed, not assumed.        *)
(* A spreadsheet cell is a record [t, s, n]: t is "none" (Python None),    *)
(* "nan" (an empty cell as pandas reads it), "str" (text s) or "num" (the  *)
(* number n/1000).                                                         *)
(***************************************************************************)
EXTENDS Integers, Sequences, FiniteSets, TLC

VARIABLES
    files,            \* vendor -> [fault, sheets]: what is on disk in data/paint
    pc,               \* position of the loader's loop over catalog_config (1..4)
    catalogs,         \* the loader's result: vendor -> [data, sheet]
    warnings,         \* vendors named by st.warning while loading
    rowlog,           \* per row of the sheet read last: cells read and record emitted
    ratio,            \* fuzz.token_set_ratio, an arbitrary function into 0..100
    search_query,     \* text of the query box at the last rerun
    search_button,    \* whether the Search button triggered the last rerun
    catalog_filter,   \* the selectbox value at the last rerun
    message,          \* the st.* banner of the last rerun
    all_results,      \* the combined rows before the vendor filter
    filtered_results, \* the rows handed to st.dataframe
    computed          \* number of rows a match_score was computed for

vars == <<files, pc, catalogs, warnings, rowlog, ratio, search_query,
          search_button, catalog_filter, message, all_results,
          filtered_results, computed>>

loadVars == <<files, pc, catalogs, warnings, rowlog>>
searchVars == <<search_query, search_button, catalog_filter, message,
                all_results, filtered_results, computed>>

-----------------------------------------------------------------------------
(* Text                                                                    *)

T_NA == <<"N", "/", "A">>
T_nan == <<"n", "a", "n">>
T_None == <<"N", "o", "n", "e">>
Pound == "£"

Upper == <<"A","B","C","D","E","F","G","H","I","J","K","L","M",
           "N","O","P","Q","R","S","T","U","V","W","X","Y","Z">>
LowerLetters == <<"a","b","c","d","e","f","g","h","i","j","k","l","m",
                  "n","o","p","q","r","s","t","u","v","w","x","y","z">>
Digits == <<"0","1","2","3","4","5","6","7","8","9">>

IsSpace(c) == c \in {" ", "\t", "\n"}

LowerChar(c) ==
    IF \E i \in 1..Len(Upper) : Upper[i] = c
    THEN LowerLetters[CHOOSE i \in 1..Len(Upper) : Upper[i] = c]
    ELSE c

\* str.lower()
Lower(s) == [i \in 1..Len(s) |-> LowerChar(s[i])]

RECURSIVE LStrip(_)
LStrip(s) == IF s # <<>> /\ IsSpace(Head(s)) THEN LStrip(Tail(s)) ELSE s

RECURSIVE RStrip(_)
RStrip(s) ==
    IF s # <<>> /\ IsSpace(s[Len(s)]) THEN RStrip(SubSeq(s, 1, Len(s) - 1)) ELSE s

\* str.strip()
Strip(s) == RStrip(LStrip(s))

\* the first whitespace-free run of s, and what follows it
RECURSIVE TakeWord(_)
TakeWord(s) ==
    IF s = <<>> \/ IsSpace(Head(s)) THEN <<>> ELSE <<Head(s)>> \o TakeWord(Tail(s))

\* str.split(): the maximal whitespace-free runs, in order
RECURSIVE Split(_)
Split(s) ==
    LET t == LStrip(s)
        w == TakeWord(t)
    IN IF t = <<>> THEN <<>>
       ELSE <<w>> \o Split(SubSeq(t, Len(w) + 1, Len(t)))

\* ' '.join(parts)
RECURSIVE Join(_)
Join(parts) ==
    IF parts = <<>> THEN <<>>
    ELSE IF Len(parts) = 1 THEN parts[1]
    ELSE parts[1] \o <<" ">> \o Join(Tail(parts))

IsDigit(c) == \E i \in 1..10 : Digits[i] = c
DigitValue(c) == (CHOOSE i \in 1..10 : Digits[i] = c) - 1

RECURSIVE DigitsOf(_)
DigitsOf(n) ==
    IF n < 10 THEN <<Digits[n + 1]>> ELSE DigitsOf(n \div 10) \o <<Digits[(n % 10) + 1]>>

RECURSIVE NatOf(_)
NatOf(ds) == IF ds = <<>> THEN 0 ELSE NatOf(SubSeq(ds, 1, Len(ds) - 1)) * 10 + DigitValue(ds[Len(ds)])

AllDigits(s) == \A i \in 1..Len(s) : IsDigit(s[i])

-----------------------------------------------------------------------------
(* Cells                                                                   *)

NoneCell == [t |-> "none", s |-> <<>>, n |-> 0]
NaN == [t |-> "nan", s |-> <<>>, n |-> 0]
StrCell(s) == [t |-> "str", s |-> s, n |-> 0]
NumCell(n) == [t |-> "num", s |-> <<>>, n |-> n]

\* pd.notna(x)
notna(x) == x.t \notin {"none", "nan"}

\* bool(x): None, "" and 0 are false; NaN and every other text are true
Truthy(x) ==
    CASE x.t = "none" -> FALSE
      [] x.t = "nan" -> TRUE
      [] x.t = "str" -> x.s # <<>>
      [] x.t = "num" -> x.n # 0

\* str(x), for the cells a code, description or extra column holds
Str(x) ==
    CASE x.t = "none" -> T_None
      [] x.t = "nan" -> T_nan
      [] x.t = "str" -> x.s

\* float(x): [ok, n] with n the value in thousandths; ok = FALSE is ValueError.
\* Text is read as Python reads decimal literals of up to three decimals:
\* surrounding whitespace stripped, digits, optionally a point and digits.
ParseFloat(s) ==
    LET b == Strip(s)
        dots == {i \in 1..Len(b) : b[i] = "."}
        dot == IF dots = {} THEN Len(b) + 1 ELSE CHOOSE i \in dots : \A j \in dots : i <= j
        ip == SubSeq(b, 1, dot - 1)
        fp == SubSeq(b, dot + 1, Len(b))
        fp3 == SubSeq(fp \o <<"0", "0", "0">>, 1, 3)
    IN IF Cardinality(dots) <= 1 /\ AllDigits(ip) /\ AllDigits(fp)
          /\ Len(ip) + Len(fp) > 0 /\ Len(fp) <= 3
       THEN [ok |-> TRUE, n |-> NatOf(ip) * 1000 + NatOf(fp3)]
       ELSE [ok |-> FALSE, n |-> 0]

float(x) ==
    CASE x.t = "num" -> [ok |-> TRUE, n |-> x.n]
      [] x.t = "str" -> ParseFloat(x.s)

-----------------------------------------------------------------------------
(* Catalog loader: load_paint_catalogs                                      *)

\* catalog_config, in the order the loop visits it
Vendors == <<"Akzo", "Crown", "PPG">>
VendorSet == {Vendors[i] : i \in 1..Len(Vendors)}

catalog_config ==
    [Akzo  |-> [code_col |-> 0, desc_col |-> 4, extra_cols |-> <<>>, price_col |-> 40],
     Crown |-> [code_col |-> 0, desc_col |-> 4, extra_cols |-> <<6, 7>>, price_col |-> 17],
     PPG   |-> [code_col |-> 0, desc_col |-> 4, extra_cols |-> <<>>, price_col |-> 15]]

Columns == <<"Code", "Product", "Price", "Catalog">>

Min(a, b) == IF a <= b THEN a ELSE b
Max(a, b) == IF a >= b THEN a ELSE b

\* row.iloc[c] if c < len(row) else None   (a row is 1-indexed here)
CellAt(row, c) == IF c < Len(row) THEN row[c + 1] ELSE NoneCell

\* the configured price column, not clamped
price_col_unclamped(v, sheet) == catalog_config[v].price_col

\* price_col = min(config['price_col'], df.shape[1] - 1)
price_col(v, sheet) == Min(catalog_config[v].price_col, sheet.width - 1)

\* the three cells the loop reads from a row
ReadRow(v, sheet, row) ==
    [code  |-> CellAt(row, catalog_config[v].code_col),
     desc  |-> CellAt(row, catalog_config[v].desc_col),
     price |-> CellAt(row, price_col(v, sheet))]

\* the stripped texts of the non-blank extra columns that lie within the row
RECURSIVE extra_parts(_, _)
extra_parts(cols, row) ==
    IF cols = <<>> THEN <<>>
    ELSE LET col_idx == Head(cols)
             extra == CellAt(row, col_idx)
             rest == extra_parts(Tail(cols), row)
         IN IF col_idx < Len(row) /\ notna(extra) /\ Strip(Str(extra)) # <<>>
            THEN <<Strip(Str(extra))>> \o rest
            ELSE rest

\* desc after "Add extra columns to description"
DescWithExtras(desc, parts) ==
    IF parts # <<>>
    THEN IF Truthy(desc)
         THEN StrCell(Str(desc) \o <<" ">> \o Join(parts))
         ELSE StrCell(Join(parts))
    ELSE desc

\* the check without the strip
KeepsRowUnstripped(desc) == Truthy(desc) /\ notna(desc)

\* if desc and pd.notna(desc) and str(desc).strip()
KeepsRow(desc) == Truthy(desc) /\ notna(desc) /\ Strip(Str(desc)) # <<>>

\* f"{x:.2f}" of x = n/1000: the nearest hundredth, a tie going to the even one
\* (the model's numbers are binary fractions or have no tie, so this is exact)
RoundPence(n) ==
    LET q == n \div 10
        r == n % 10
    IN IF r < 5 THEN q
       ELSE IF r > 5 THEN q + 1
       ELSE IF q % 2 = 0 THEN q ELSE q + 1

FormatMoney(n) ==
    LET p == RoundPence(n)
    IN <<Pound>> \o DigitsOf(p \div 100) \o <<".">>
       \o <<Digits[((p % 100) \div 10) + 1], Digits[(p % 10) + 1]>>

\* the price format with every non-numeric price turned into "N/A"
formatted_price_na(price) ==
    IF notna(price) /\ price # StrCell(T_NA) /\ float(price).ok
    THEN FormatMoney(float(price).n)
    ELSE T_NA

\* "Format price to 2 decimal places"
formatted_price(price) ==
    IF notna(price) /\ price # StrCell(T_NA)
    THEN IF float(price).ok THEN FormatMoney(float(price).n) ELSE Str(price)
    ELSE T_NA

\* one iteration of "for idx, row in df.iterrows()"
ProcessRow(v, sheet, row) ==
    LET rd == ReadRow(v, sheet, row)
        desc == DescWithExtras(rd.desc, extra_parts(catalog_config[v].extra_cols, row))
    IN [catalog |-> v,
        row     |-> row,
        code    |-> rd.code,
        desc    |-> rd.desc,
        price   |-> rd.price,
        emitted |-> KeepsRow(desc),
        record  |-> [Code    |-> IF notna(rd.code) THEN Str(rd.code) ELSE T_NA,
                     Product |-> Strip(Str(desc)),
                     Price   |-> formatted_price(rd.price),
                     Catalog |-> v]]

\* index of the sheet the loader reads, 0 when it reads none
SelectSheet(v, sheets) ==
    IF v = "Crown" /\ Len(sheets) > 1 THEN 2
    ELSE LET wide == {i \in 1..Len(sheets) : sheets[i].width > catalog_config[v].desc_col}
         IN IF wide = {} THEN 0 ELSE CHOOSE i \in wide : \A j \in wide : i <= j

RowLog(v, sheets) ==
    LET sel == SelectSheet(v, sheets)
    IN IF sel = 0 THEN <<>>
       ELSE [i \in 1..Len(sheets[sel].rows) |-> ProcessRow(v, sheets[sel], sheets[sel].rows[i])]

RECURSIVE Emitted(_)
Emitted(log) ==
    IF log = <<>> THEN <<>>
    ELSE (IF Head(log).emitted THEN <<Head(log).record>> ELSE <<>>) \o Emitted(Tail(log))

\* pd.DataFrame(products)
DataFrame(rows) == [columns |-> Columns, rows |-> rows, match_score |-> <<>>]

\* the body of the try block for a file that exists and parses
LoadOne(cats, v, sheets) ==
    LET products == Emitted(RowLog(v, sheets))
    IN IF SelectSheet(v, sheets) # 0 /\ products # <<>>
       THEN [x \in DOMAIN cats \cup {v} |->
                IF x = v THEN [data |-> DataFrame(products), sheet |-> SelectSheet(v, sheets)]
                ELSE cats[x]]
       ELSE cats

NoCatalogs == [x \in {} |-> 0]

\* a failure that ends the loop
AbortLoop(p) == Len(Vendors) + 1

\* the loop position after the except clause has handled a failure
AfterException(p) == p + 1

\* the whole function, on files fs
RECURSIVE LoadFrom(_, _, _)
LoadFrom(p, cats, fs) ==
    IF p > Len(Vendors) THEN cats
    ELSE LET v == Vendors[p]
         IN CASE fs[v].fault = "missing" -> LoadFrom(p + 1, cats, fs)
              [] fs[v].fault = "corrupt" -> LoadFrom(AfterException(p), cats, fs)
              [] fs[v].fault = "none" -> LoadFrom(p + 1, LoadOne(cats, v, fs[v].sheets), fs)

load_paint_catalogs(fs) == LoadFrom(1, NoCatalogs, fs)

-----------------------------------------------------------------------------
(* Search block                                                            *)

\* "Keep matches with score >= 50"
Threshold == 50

Filters == {"All"} \cup VendorSet

\* max(token_set_ratio(term, str(Code).lower()), token_set_ratio(term, Product.lower()))
TermScore(term, row) ==
    Max(ratio[<<term, Lower(row.Code)>>], ratio[<<term, Lower(row.Product)>>])

\* a disjunctive search: the best term decides
RECURSIVE AnyTermScore(_, _)
AnyTermScore(terms, row) ==
    IF Len(terms) = 1 THEN TermScore(terms[1], row)
    ELSE Max(TermScore(terms[1], row), AnyTermScore(Tail(terms), row))

RECURSIVE MinScore(_, _)
MinScore(terms, row) ==
    IF Len(terms) = 1 THEN TermScore(terms[1], row)
    ELSE Min(TermScore(terms[1], row), MinScore(Tail(terms), row))

\* the lambda of df.apply
match_score(terms, row) == IF terms # <<>> THEN MinScore(terms, row) ELSE 0

\* df['match_score'] = df.apply(...): the column is added to the frame df names
WithScores(frame, terms) ==
    [columns |-> IF \E i \in 1..Len(frame.columns) : frame.columns[i] = "match_score"
                 THEN frame.columns ELSE frame.columns \o <<"match_score">>,
     rows |-> frame.rows,
     match_score |-> [i \in 1..Len(frame.rows) |-> match_score(terms, frame.rows[i])]]

\* df[df['match_score'] >= 50].copy().drop('match_score', axis=1): the rows kept
RECURSIVE Matching(_, _)
Matching(frame, i) ==
    IF i > Len(frame.rows) THEN <<>>
    ELSE (IF frame.match_score[i] >= Threshold THEN <<frame.rows[i]>> ELSE <<>>)
         \o Matching(frame, i + 1)

\* df names the cached frame itself
alias(ref) == ref

\* the object df names after df = catalog_data['data'].copy(): a fresh frame
copy(ref) == "tmp"

\* the frames the rerun can name: the cached ones, by vendor, and the fresh copy
Heap(cats) ==
    [r \in DOMAIN cats \cup {"tmp"} |->
        IF r = "tmp" THEN DataFrame(<<>>) ELSE cats[r].data]

\* the loop "for catalog_name, catalog_data in catalogs.items()", from position p
RECURSIVE SearchFrom(_, _, _, _, _)
SearchFrom(p, cats, heap, results, terms) ==
    IF p > Len(Vendors) THEN [heap |-> heap, results |-> results]
    ELSE IF Vendors[p] \notin DOMAIN cats THEN SearchFrom(p + 1, cats, heap, results, terms)
    ELSE LET df == copy(Vendors[p])
             h1 == [heap EXCEPT ![df] = WithScores(heap[Vendors[p]], terms)]
         IN SearchFrom(p + 1, cats, h1, results \o Matching(h1[df], 1), terms)

\* no filter at all
KeepAllRows(rows, f) == rows

\* all_results[all_results['Catalog'] == catalog_filter]
RECURSIVE FilterCatalog(_, _)
FilterCatalog(rows, f) ==
    IF rows = <<>> THEN <<>>
    ELSE (IF Head(rows).Catalog = f THEN <<Head(rows)>> ELSE <<>>)
         \o FilterCatalog(Tail(rows), f)

RowCount(cats) ==
    LET n[p \in 0..Len(Vendors)] ==
            IF p = 0 THEN 0
            ELSE n[p - 1] + (IF Vendors[p] \in DOMAIN cats
                             THEN Len(cats[Vendors[p]].data.rows) ELSE 0)
    IN n[Len(Vendors)]

-----------------------------------------------------------------------------
(* Inputs                                                                  *)

NarrowWidth == 3
MidWidth == 8
FullWidth == 41

Pad == StrCell(<<"x">>)

PriceColumns == {catalog_config[v].price_col : v \in VendorSet}

\* a sheet row of width w laid out as the vendors' files are: code in column A,
\* description in E, extras in G and H, price in the vendors' price columns
MkRow(w, sc) ==
    [i \in 1..w |->
        CASE i - 1 = 0 -> sc.code
          [] i - 1 = 4 -> sc.desc
          [] i - 1 = 6 -> sc.e1
          [] i - 1 = 7 -> sc.e2
          [] i - 1 \in PriceColumns -> sc.price
          [] OTHER -> Pad]

Sheet(w, scs) == [width |-> w, rows |-> [i \in 1..Len(scs) |-> MkRow(w, scs[i])]]

Sc(code, desc, e1, e2, price) ==
    [code |-> code, desc |-> desc, e1 |-> e1, e2 |-> e2, price |-> price]

X_A1 == StrCell(<<"A", "1">>)
X_Blue == StrCell(<<"B", "l", "u", "e">>)
X_BlueMatte == StrCell(<<" ", "B", "l", "u", "e", " ", "M", "a", "t", "t", "e", " ">>)
X_Red == StrCell(<<"R", "e", "d">>)
X_Gloss == StrCell(<<"G", "l", "o", "s", "s">>)
X_5L == StrCell(<<" ", "5", "L", " ">>)

FixedRow == Sc(StrCell(<<"A", "2">>), X_Red, NaN, NaN, NumCell(3000))

\* rows that vary the description and the extra columns
DescScenarios ==
    {Sc(X_A1, d, e[1], e[2], NumCell(12500)) :
        d \in {NaN, StrCell(<<>>), StrCell(<<" ", " ">>), X_BlueMatte},
        e \in {<<NaN, NaN>>, <<X_Gloss, X_5L>>, <<StrCell(<<" ">>), NaN>>}}

\* rows that vary the price cell (and one with an empty code cell)
PriceScenarios ==
    {Sc(X_A1, X_Blue, NaN, NaN, p) :
        p \in {NaN, StrCell(T_NA), StrCell(<<"P", "O", "A">>), StrCell(<<" ", "7", ".", "1", "2", "5", " ">>),
               NumCell(375), NumCell(0), NumCell(1234560)}}
    \cup {Sc(NaN, X_Blue, NaN, X_5L, NumCell(12500))}

Scenarios == DescScenarios \cup PriceScenarios

Layouts == {<<FullWidth>>, <<MidWidth>>, <<NarrowWidth>>,
            <<NarrowWidth, FullWidth>>, <<FullWidth, NarrowWidth>>,
            <<NarrowWidth, MidWidth>>}

Workbook(layout, scs) == [i \in 1..Len(layout) |-> Sheet(layout[i], scs)]

\* the files a vendor may have on disk, all holding the rows scs
FilePool(scs) ==
    {[fault |-> "none", sheets |-> Workbook(l, scs)] : l \in Layouts}
    \cup {[fault |-> f, sheets |-> Workbook(<<FullWidth>>, scs)] : f \in {"missing", "corrupt"}}

\* catalogs to search: a vendor's file is missing, or holds the rows given here
SearchPool ==
    [Akzo  : {[fault |-> f, sheets |-> Workbook(<<MidWidth>>,
                 <<Sc(X_A1, X_BlueMatte, NaN, NaN, NumCell(12500))>>)] : f \in {"none", "missing"}},
     Crown : {[fault |-> f, sheets |-> Workbook(<<MidWidth>>,
                 <<Sc(X_A1, X_Red, NaN, NaN, NumCell(3000))>>)] : f \in {"none", "missing"}},
     PPG   : {[fault |-> f, sheets |-> Workbook(<<MidWidth>>,
                 <<Sc(X_A1, X_Red, NaN, NaN, NaN),
                   Sc(X_A1, X_BlueMatte, NaN, NaN, NumCell(375))>>)] : f \in {"none", "missing"}}]

Queries == {<<>>, <<" ", " ">>, <<"B", "l", "u", "e">>, <<"B", "l", "u", "e", " ", " ", "m", "a", "t", "t", "e">>}

\* scores either side of the threshold; every function into them, and the
\* two constant functions at the ends of the scale
ScoreValues == {49, 50}
ScoreFunctions(D) == [D -> ScoreValues] \cup {[x \in D |-> 0], [x \in D |-> 100]}

\* the terms and the texts token_set_ratio is applied to
TermsOf(qs) == UNION {{Split(Lower(q))[i] : i \in 1..Len(Split(Lower(q)))} : q \in qs}
TextsOf(cats) ==
    UNION {UNION {{Lower(cats[v].data.rows[i].Code), Lower(cats[v].data.rows[i].Product)} :
                     i \in 1..Len(cats[v].data.rows)} : v \in DOMAIN cats}

-----------------------------------------------------------------------------
(* The loader, one vendor of catalog_config per step                       *)

Done == Len(Vendors) + 1

Idle ==
    /\ search_query = <<>>
    /\ search_button = FALSE
    /\ catalog_filter = "All"
    /\ all_results = <<>>
    /\ filtered_results = <<>>
    /\ computed = 0

Init ==
    /\ \E sc \in Scenarios : files \in [VendorSet -> FilePool(<<sc, FixedRow>>)]
    /\ pc = 1
    /\ catalogs = NoCatalogs
    /\ warnings = {}
    /\ rowlog = <<>>
    /\ ratio = [x \in {} |-> 0]
    /\ message = "none"
    /\ Idle

\* os.path.exists(filepath) is false: the body of the if is skipped
LoadMissing ==
    /\ pc < Done
    /\ files[Vendors[pc]].fault = "missing"
    /\ pc' = pc + 1
    /\ rowlog' = <<>>
    /\ UNCHANGED <<files, catalogs, warnings, ratio>>
    /\ UNCHANGED searchVars

\* pd.ExcelFile or pd.read_excel raises: st.warning names the vendor
LoadRaises ==
    /\ pc < Done
    /\ files[Vendors[pc]].fault = "corrupt"
    /\ warnings' = warnings \cup {Vendors[pc]}
    /\ pc' = AfterException(pc)
    /\ rowlog' = <<>>
    /\ UNCHANGED <<files, catalogs, ratio>>
    /\ UNCHANGED searchVars

\* the file exists and parses
LoadParsed ==
    /\ pc < Done
    /\ files[Vendors[pc]].fault = "none"
    /\ catalogs' = LoadOne(catalogs, Vendors[pc], files[Vendors[pc]].sheets)
    /\ rowlog' = RowLog(Vendors[pc], files[Vendors[pc]].sheets)
    /\ pc' = pc + 1
    /\ UNCHANGED <<files, warnings, ratio>>
    /\ UNCHANGED searchVars

\* if not catalogs: st.error(...), and no search interface
NoCatalogsError ==
    /\ pc = Done
    /\ DOMAIN catalogs = {}
    /\ message = "none"
    /\ message' = "error"
    /\ UNCHANGED <<search_query, search_button, catalog_filter, all_results,
                   filtered_results, computed, ratio>>
    /\ UNCHANGED loadVars

Next == LoadMissing \/ LoadRaises \/ LoadParsed \/ NoCatalogsError

Spec == Init /\ [][Next]_vars

-----------------------------------------------------------------------------
(* The search block, one rerun of the script per step                      *)

InitSearch ==
    /\ files \in SearchPool
    /\ pc = Done
    /\ catalogs = load_paint_catalogs(files)
    /\ warnings = {}
    /\ rowlog = <<>>
    /\ ratio \in ScoreFunctions(TermsOf(Queries) \X TextsOf(catalogs))
    /\ message = IF DOMAIN catalogs = {} THEN "error" ELSE "none"
    /\ Idle

\* neither a query nor the button: nothing below the divider is drawn
RerunIdle(q, b, f) ==
    /\ pc = Done /\ DOMAIN catalogs # {}
    /\ ~(q # <<>> \/ b)
    /\ search_query' = q /\ search_button' = b /\ catalog_filter' = f
    /\ message' = "none"
    /\ all_results' = <<>> /\ filtered_results' = <<>> /\ computed' = 0
    /\ UNCHANGED <<ratio>>
    /\ UNCHANGED loadVars

\* if not query_lower: st.info("Enter a search term to find products")
RerunPrompt(q, b, f) ==
    /\ pc = Done /\ DOMAIN catalogs # {}
    /\ q # <<>> \/ b
    /\ (IF q # <<>> THEN Lower(q) ELSE <<>>) = <<>>
    /\ search_query' = q /\ search_button' = b /\ catalog_filter' = f
    /\ message' = "info"
    /\ all_results' = <<>> /\ filtered_results' = <<>> /\ computed' = 0
    /\ UNCHANGED <<ratio>>
    /\ UNCHANGED loadVars

\* the else branch: match, combine, filter, display
RerunSearch(q, b, f) ==
    /\ pc = Done /\ DOMAIN catalogs # {}
    /\ q # <<>> \/ b
    /\ (IF q # <<>> THEN Lower(q) ELSE <<>>) # <<>>
    /\ search_query' = q /\ search_button' = b /\ catalog_filter' = f
    /\ \E search_terms \in {Split(Lower(q))} :
       \E run \in {SearchFrom(1, catalogs, Heap(catalogs), <<>>, search_terms)} :
          /\ catalogs' = [v \in DOMAIN catalogs |-> [catalogs[v] EXCEPT !.data = run.heap[v]]]
          /\ all_results' = run.results
          /\ IF Len(run.results) > 0
             THEN /\ filtered_results' = IF f = "All" THEN run.results
                                         ELSE FilterCatalog(run.results, f)
                  /\ message' = "success"
             ELSE /\ filtered_results' = <<>>
                  /\ message' = "warning"
    /\ computed' = RowCount(catalogs)
    /\ UNCHANGED <<files, pc, warnings, rowlog, ratio>>

NextSearch ==
    \E q \in Queries, b \in BOOLEAN, f \in Filters :
        RerunIdle(q, b, f) \/ RerunPrompt(q, b, f) \/ RerunSearch(q, b, f)

SpecSearch == InitSearch /\ [][NextSearch]_vars

-----------------------------------------------------------------------------
(* Properties of the loader (specification Spec)                           *)

\* a description or extra cell that is missing, empty or whitespace-only
Blank(x) == x.t \in {"none", "nan"} \/ (x.t = "str" /\ Strip(x.s) = <<>>)

\* every extra column of the vendor that lies within the row is blank
NoExtraText(e) ==
    \A k \in 1..Len(catalog_config[e.catalog].extra_cols) :
        LET c == catalog_config[e.catalog].extra_cols[k]
        IN c < Len(e.row) => Blank(e.row[c + 1])

\* C2, as stated: a row whose description cell is missing, empty or
\* whitespace-only yields no record, for every vendor, and every record
\* emitted has a non-empty description.
C2_BlankDescriptionCellDropped ==
    \A i \in 1..Len(rowlog) :
        /\ Blank(rowlog[i].desc) => ~rowlog[i].emitted
        /\ rowlog[i].emitted => rowlog[i].record.Product # <<>>

\* C2, amended: a row whose description cell is blank and whose extra
\* description columns (where the vendor has them) hold no text yields no
\* record; every record emitted, and every row of every loaded catalog, has a
\* non-empty description.
C2_BlankDescriptionDropped ==
    /\ \A i \in 1..Len(rowlog) :
        /\ (Blank(rowlog[i].desc) /\ NoExtraText(rowlog[i])) => ~rowlog[i].emitted
        /\ rowlog[i].emitted => rowlog[i].record.Product # <<>>
    /\ \A v \in DOMAIN catalogs : \A i \in 1..Len(catalogs[v].data.rows) :
        catalogs[v].data.rows[i].Product # <<>>

\* a sheet was read in which a blank-description row was dropped and another
\* row was emitted
C2_Witness ==
    \E i, j \in 1..Len(rowlog) :
        /\ Blank(rowlog[i].desc) /\ rowlog[i].desc.t = "str" /\ rowlog[i].desc.s # <<>>
        /\ ~rowlog[i].emitted
        /\ rowlog[j].emitted
        /\ rowlog[j].catalog \in DOMAIN catalogs

\* p is the pound sign, digits, a point and exactly two digits, and is the
\* hundredth nearest to n/1000
IsMoney(p, n) ==
    /\ Len(p) >= 5
    /\ p[1] = Pound
    /\ p[Len(p) - 2] = "."
    /\ AllDigits(SubSeq(p, 2, Len(p) - 3)) /\ AllDigits(SubSeq(p, Len(p) - 1, Len(p)))
    /\ LET pence == NatOf(SubSeq(p, 2, Len(p) - 3)) * 100 + NatOf(SubSeq(p, Len(p) - 1, Len(p)))
       IN pence * 10 - n \in -5..5

AllLoad(fs) == [v \in VendorSet |-> [fs[v] EXCEPT !.fault = "none"]]

Entry(cats, v) == IF v \in DOMAIN cats THEN <<cats[v]>> ELSE <<>>

\* C5: when a vendor's file is missing or raises, the loader still returns,
\* that vendor is absent from the result, and every other vendor has exactly
\* the records it has when all files load.
C5_IsolatedLoad ==
    pc = Done =>
        \A v \in VendorSet :
            /\ files[v].fault # "none" => v \notin DOMAIN catalogs
            /\ files[v].fault = "none"
                  => Entry(catalogs, v) = Entry(load_paint_catalogs(AllLoad(files)), v)

\* the first file raised, the second was missing, the third was loaded
C5_Witness ==
    /\ pc = Done
    /\ files[Vendors[1]].fault = "corrupt"
    /\ files[Vendors[2]].fault = "missing"
    /\ Vendors[3] \in DOMAIN catalogs
    /\ Vendors[1] \in DOMAIN load_paint_catalogs(AllLoad(files))

\* C8, as stated: every vendor whose file is skipped, missing or unparseable,
\* is named by a warning.
C8_SkippedVendorsWarned ==
    \A p \in 1..Len(Vendors) :
        (p < pc /\ files[Vendors[p]].fault # "none") => Vendors[p] \in warnings

\* C9, as stated: each of the code, description and price cells is read at
\* index min(c, w-1) of a sheet of width w >= 1.
C9_AllColumnsClamped ==
    \A i \in 1..Len(rowlog) :
        LET e == rowlog[i]
            w == Len(e.row)
            cfg == catalog_config[e.catalog]
        IN w >= 1 =>
            /\ e.code = e.row[Min(cfg.code_col, w - 1) + 1]
            /\ e.desc = e.row[Min(cfg.desc_col, w - 1) + 1]
            /\ e.price = e.row[Min(cfg.price_col, w - 1) + 1]

\* C9, amended: the price cell is read at index min(c, w-1); the code cell is
\* read at its index (always within the sheet); the description cell is read at
\* its index when that lies within the sheet and is a missing value otherwise.
C9_PriceColumnClamped ==
    \A i \in 1..Len(rowlog) :
        LET e == rowlog[i]
            w == Len(e.row)
            cfg == catalog_config[e.catalog]
        IN w >= 1 =>
            /\ e.code = e.row[Min(cfg.code_col, w - 1) + 1]
            /\ e.desc = IF cfg.desc_col < w THEN e.row[cfg.desc_col + 1] ELSE NoneCell
            /\ e.price = e.row[Min(cfg.price_col, w - 1) + 1]

\* a sheet narrower than the price column was read: the price came from its
\* last column, and a record was emitted
C9_Witness ==
    \E i \in 1..Len(rowlog) :
        /\ catalog_config[rowlog[i].catalog].price_col > Len(rowlog[i].row) - 1
        /\ rowlog[i].price = rowlog[i].row[Len(rowlog[i].row)]
        /\ rowlog[i].emitted

-----------------------------------------------------------------------------
(* Properties of the search block (specification SpecSearch)               *)

IsIn(row, rows) == \E j \in 1..Len(rows) : rows[j] = row

\* the last rerun took the matching branch
Searched == message \in {"success", "warning"}

\* C1: for a query with at least one term, a loaded row is in the combined
\* result before the vendor filter exactly when, for every term, the better of
\* its two scores (against the lower-cased code and the lower-cased
\* description) is at least 50; the combined result holds nothing else.
C1_ConjunctiveSearch ==
    LET terms == Split(Lower(search_query))
        Clears(term, row) ==
            \/ ratio[<<term, Lower(row.Code)>>] >= 50
            \/ ratio[<<term, Lower(row.Product)>>] >= 50
        Qualifies(row) == \A k \in 1..Len(terms) : Clears(terms[k], row)
    IN (Searched /\ terms # <<>>) =>
          /\ \A v \in DOMAIN catalogs : \A i \in 1..Len(catalogs[v].data.rows) :
                IsIn(catalogs[v].data.rows[i], all_results)
                    <=> Qualifies(catalogs[v].data.rows[i])
          /\ \A j \in 1..Len(all_results) :
                \E v \in DOMAIN catalogs : IsIn(all_results[j], catalogs[v].data.rows)

\* a two-term query returned rows, and left out a row that clears the
\* threshold for the first term only
C1_Witness ==
    LET terms == Split(Lower(search_query))
    IN /\ message = "success"
       /\ Len(terms) = 2
       /\ \E v \in DOMAIN catalogs : \E i \in 1..Len(catalogs[v].data.rows) :
            LET row == catalogs[v].data.rows[i]
            IN /\ ratio[<<terms[1], Lower(row.Product)>>] >= 50
               /\ ratio[<<terms[2], Lower(row.Product)>>] < 50
               /\ ratio[<<terms[2], Lower(row.Code)>>] < 50
               /\ ~IsIn(row, all_results)

\* C4, as stated: with one vendor selected, the rows shown are all tagged with
\* that vendor and are a strict subset of the rows shown for "All".
C4_FilterStrictSubset ==
    (message = "success" /\ catalog_filter # "All") =>
        /\ \A j \in 1..Len(filtered_results) :
              /\ filtered_results[j].Catalog = catalog_filter
              /\ IsIn(filtered_results[j], all_results)
        /\ Len(filtered_results) < Len(all_results)

\* C4, amended: with one vendor selected, the rows shown are exactly the rows
\* of the "All" result tagged with that vendor: a subset of it, which is the
\* whole of it when every matching row belongs to that vendor.
C4_FilterSubset ==
    (message = "success" /\ catalog_filter # "All") =>
        /\ \A j \in 1..Len(filtered_results) :
              /\ filtered_results[j].Catalog = catalog_filter
              /\ IsIn(filtered_results[j], all_results)
        /\ \A j \in 1..Len(all_results) :
              all_results[j].Catalog = catalog_filter => IsIn(all_results[j], filtered_results)
        /\ Len(filtered_results) <= Len(all_results)

\* a vendor filter kept some of the matching rows and removed others
C4_Witness ==
    /\ message = "success"
    /\ catalog_filter # "All"
    /\ 0 < Len(filtered_results)
    /\ Len(filtered_results) < Len(all_results)

\* C6, as stated: a submitted query without search terms (empty or
\* whitespace-only) computes no row and shows the "enter a search term" prompt.
C6_NoTermsPrompt ==
    ((search_query # <<>> \/ search_button) /\ Split(Lower(search_query)) = <<>>) =>
        (message = "info" /\ computed = 0 /\ all_results = <<>>)

\* C7, as stated: a non-empty query that leaves no row to display under the
\* selected filter shows the "no results" message, never a success.
C7_NoRowsNoResults ==
    (search_query # <<>> /\ message # "none" /\ filtered_results = <<>>) =>
        message = "warning"

\* C10: after any sequence of reruns the loaded catalogs are what the loader
\* returned: the same rows, the four columns, no match_score column.
C10_SearchLeavesCatalogs ==
    /\ catalogs = load_paint_catalogs(files)
    /\ \A v \in DOMAIN catalogs :
          /\ catalogs[v].data.columns = <<"Code", "Product", "Price", "Catalog">>
          /\ catalogs[v].data.match_score = <<>>

\* a search scored every loaded row and returned some
C10_Witness ==
    /\ message = "success"
    /\ computed > 0
    /\ filtered_results # <<>>

====
